---- MODULE Spec2Model ----
(***************************************************************************)
(* Model of the download-and-merge pipeline of YT-Downloader (src/main.py): *)
(* the MainWindow fields, the URL loader, the download button, the Worker   *)
(* that runs download_video on the thread pool, the ffmpeg subprocess, the  *)
(* progress reader thread and the 1-second polling loop.                    *)
(*                                                                          *)
(* Representation:                                                          *)
(*  - a Python None held by a field that otherwise holds a URL/stream is    *)
(*    the string NoneObj / the record NoStream;                             *)
(*  - an unbound local integer is Unbound (-1);                             *)
(*  - a text such as '1080 itag:137' is the sequence of its colon-separated *)
(*    fields <<"1080 itag", 137>>, the text "None" is <<"None">>;           *)
(*  - a percent is an integer number of hundredths (6667 is 66.67 %).       *)
(*                                                                          *)
(* Specifications:                                                          *)
(*  - Spec: one run, with every probe output and progress feed;             *)
(*  - SpecRuns: several runs one after the other;                           *)
(*  - SpecOverlap: runs started while another worker is still running.      *)
(* In all three the user enters texts and picks a resolution between runs.  *)
(***************************************************************************)
EXTENDS Integers, Sequences, FiniteSets, TLC

\* ---------------------------------------------------------------- bounds
MaxRuns == 2      \* download workers started over one behaviour of SpecRuns
MaxDetailedRuns == 1  \* download workers started over one behaviour of Spec
MaxLoads == 2     \* texts entered into the line edit over one behaviour
MaxDrags == 1     \* drag-enter events over one behaviour
ChunkSize == 2    \* bytes delivered per download chunk

RunIds == 1..MaxRuns

\* ---------------------------------------------------------------- values
NoneObj == "None"
Unbound == -1
NoneText == <<"None">>
NoStream == [itag |-> Unbound, url |-> NoneObj, filesize |-> 0]

\* Texts that can be put into the line edit: two videos, a private video and
\* a text that is no URL.
ValidUrls == {"A", "B", "P"}
Texts == ValidUrls \cup {"x"}

Stream(itag, res, adaptive, abr, mime, size) ==
    [itag |-> itag, resolution |-> res, adaptive |-> adaptive, abr |-> abr,
     mime_type |-> mime, filesize |-> size]

\* The stream catalog the external library yields for a URL, in its order.
Catalog(u) ==
    CASE u = "A" -> << Stream(137, "1080p", TRUE, "None", "video/mp4", 3),
                       Stream(136, "720p", TRUE, "None", "video/mp4", 2),
                       Stream(140, "None", TRUE, "128kbps", "audio/mp4", 3) >>
      [] u = "B" -> << Stream(22, "720p", FALSE, "192kbps", "video/mp4", 2),
                       Stream(251, "None", TRUE, "160kbps", "audio/webm", 2) >>
      [] OTHER   -> << >>

\* yt.streams raises VideoPrivate for the private video.
CatalogError(u) == IF u = "P" THEN "VideoPrivate" ELSE "ok"

TitleOf(u) == u

\* ---------------------------------------------------------------- helpers
FilterRes(cat, res) == SelectSeq(cat, LAMBDA st : st.resolution = res)
FilterResAdaptive(cat, res, ad) ==
    SelectSeq(cat, LAMBDA st : st.resolution = res /\ st.adaptive = ad)
FilterAbr(cat, abr) == SelectSeq(cat, LAMBDA st : st.abr = abr)
FilterAbrMime(cat, abr, mime) ==
    SelectSeq(cat, LAMBDA st : st.abr = abr /\ st.mime_type = mime)

\* One 'if self.yt.streams.filter(..): list.append(f"<label>:{first.itag}")'
AppendIf(list, found, label, from) ==
    IF Len(found) > 0 THEN Append(list, << label, from[1].itag >>) ELSE list

\* resolutions after the seven resolution checks of available_resolutions
ResolutionsAppended(res, cat) ==
    LET r1 == AppendIf(res, FilterRes(cat, "2160p"), "2160 itag", FilterRes(cat, "2160p"))
        r2 == AppendIf(r1, FilterRes(cat, "1440p"), "1440 itag", FilterRes(cat, "1440p"))
        r3 == AppendIf(r2, FilterRes(cat, "1080p"), "1080 itag", FilterRes(cat, "1080p"))
        r4 == AppendIf(r3, FilterResAdaptive(cat, "720p", TRUE), "720 itag",
                       FilterResAdaptive(cat, "720p", TRUE))
        r5 == AppendIf(r4, FilterResAdaptive(cat, "720p", FALSE), "720 p itag",
                       FilterResAdaptive(cat, "720p", FALSE))
        r6 == AppendIf(r5, FilterResAdaptive(cat, "480p", FALSE), "480 p itag",
                       FilterResAdaptive(cat, "480p", FALSE))
        r7 == AppendIf(r6, FilterResAdaptive(cat, "360p", FALSE), "360 p itag",
                       FilterResAdaptive(cat, "360p", FALSE))
    IN r7

\* audio after the four bitrate checks: the test filters on audio/mp4, the
\* appended itag is the first stream of that bitrate of any mime type
AudioAppended(aud, cat) ==
    LET a1 == AppendIf(aud, FilterAbrMime(cat, "160kbps", "audio/mp4"), "160kbps itag",
                       FilterAbr(cat, "160kbps"))
        a2 == AppendIf(a1, FilterAbrMime(cat, "128kbps", "audio/mp4"), "128kbps itag",
                       FilterAbr(cat, "128kbps"))
        a3 == AppendIf(a2, FilterAbrMime(cat, "70kbps", "audio/mp4"), "70kbps itag",
                       FilterAbr(cat, "70kbps"))
        a4 == AppendIf(a3, FilterAbrMime(cat, "48kbps", "audio/mp4"), "48kbps itag",
                       FilterAbr(cat, "48kbps"))
    IN a4

\* list.remove(x): the list without its first x (the caller checks x is in it)
RemoveFirst(list, x) ==
    LET i == CHOOSE k \in 1..Len(list) :
                 list[k] = x /\ \A j \in 1..(k - 1) : list[j] # x
    IN SubSeq(list, 1, i - 1) \o SubSeq(list, i + 1, Len(list))

Contains(list, x) == \E k \in 1..Len(list) : list[k] = x

\* int(text.split(":")[1]): Unbound when the text has no second field
\* (IndexError caught, the local stays unassigned)
ItagOfText(text) == IF Len(text) >= 2 THEN text[2] ELSE Unbound

\* combobox.currentText(): "" for an empty combobox
CurrentText(cb) ==
    IF cb.index >= 1 /\ cb.index <= Len(cb.items) THEN cb.items[cb.index] ELSE << "" >>

\* streams.get_by_itag(itag): the stream of the catalog with this itag, or None
GetByItag(u, itag) ==
    LET found == SelectSeq(Catalog(u), LAMBDA st : st.itag = itag)
    IN IF Len(found) > 0
       THEN [itag |-> itag, url |-> u, filesize |-> found[1].filesize]
       ELSE NoStream

\* round(n / d * 100, 2) in hundredths of a percent, ties to even
RoundPct(n, d) ==
    LET num == n * 10000
        quo == num \div d
        rem == num % d
    IN IF 2 * rem > d \/ (2 * rem = d /\ quo % 2 = 1) THEN quo + 1 ELSE quo

\* "%0.2f" % (n / d * 100): the same rounding, applied when the text is built
FormatPct(n, d) == RoundPct(n, d)

\* ---------------------------------------------------------------- state
VARIABLES
    yt,               \* self.yt: the URL whose YouTube object it is, or NoneObj
    streams,          \* self.streams: the URL whose catalog it is, or NoneObj
    title,            \* self.title
    resolutions,      \* self.resolutions
    audio,            \* self.audio
    combobox,         \* self.combobox: [items, index], index 0 when empty
    output_filename,  \* self.output_filename
    pct_completed,    \* self.pct_completed, in hundredths
    progress,         \* self.progress: [text, pct], the value and format shown
    video_stream,     \* self.video_stream
    audio_stream,     \* self.audio_stream
    ffmpeg_string,    \* self.ffmpeg_string: NoneObj or the command text
    temp_folder,      \* self.temp_folder still exists on disk
    files,            \* the two scratch files of temp_folder
    outputs,          \* the output files written by ffmpeg, by path
    run,              \* the download workers: position, locals, subprocess (with
                      \* the lines it has sent), reader, and the history of the
                      \* scratch files read and written
    events,           \* slot calls queued to the GUI thread by worker signals
    input             \* texts entered, drags and runs started so far; app closed

gui == << yt, streams, title, resolutions, audio, combobox, output_filename >>
shared == << pct_completed, progress, video_stream, audio_stream, ffmpeg_string >>
disk == << temp_folder, files, outputs >>
vars == << yt, streams, title, resolutions, audio, combobox, output_filename,
           pct_completed, progress, video_stream, audio_stream, ffmpeg_string,
           temp_folder, files, outputs, run, events, input >>

FileNames == {"video.mp4", "audio.mp3"}
\* The output paths: one per title, in the folder chosen in the dialog
Paths == {TitleOf(u) : u \in ValidUrls} \cup {NoneObj}
NoFile == [writer |-> 0, bytes |-> 0, size |-> 0]
NoProc == [state |-> "none", code |-> Unbound, feed |-> << >>, sent |-> << >>,
           pipe |-> << >>, closed |-> FALSE]
NoOutcome == [kind |-> "none", exctype |-> "none", at |-> "none"]

\* A worker that has not been created yet
NoRun ==
    [pc |-> "unused", audio_itag |-> Unbound, video_itag |-> Unbound,
     dl |-> [size |-> 0, remaining |-> 0],
     tot_n_frames |-> Unbound, q |-> 0, progress_percent |-> Unbound,
     proc |-> NoProc, rpc |-> "none", string1 |-> NoneObj,
     outcome |-> NoOutcome, signals |-> << >>,
     reads |-> [probe |-> 0, video |-> 0, audio |-> 0],
     wrote |-> {}, earlier |-> {}]

\* MainWindow.__init__
Init ==
    /\ yt = NoneObj
    /\ streams = NoneObj
    /\ title = NoneObj
    /\ resolutions = << NoneText >>
    /\ audio = << >>
    /\ combobox = [items |-> << NoneText >>, index |-> 1]
    /\ output_filename = NoneObj
    /\ pct_completed = 0
    /\ progress = [text |-> "", pct |-> 0]
    /\ video_stream = NoStream
    /\ audio_stream = NoStream
    /\ ffmpeg_string = NoneObj
    /\ temp_folder = TRUE
    /\ files = [f \in FileNames |-> NoFile]
    /\ outputs = [t \in Paths |-> "absent"]
    /\ run = [r \in RunIds |-> NoRun]
    /\ events = << >>
    /\ input = [loads |-> 0, drags |-> 0, runs |-> 0, closed |-> FALSE]

Active(r) == run[r].pc \notin {"unused", "done"}

\* No worker is running: the user enters texts, drags and picks a resolution
\* between runs
Quiet == \A r \in RunIds : ~Active(r)

\* ---------------------------------------------------------------- GUI thread

\* available_resolutions, from the lists it starts with: the lists after the
\* appends, and the combobox, which is refilled only when remove("None") does
\* not raise ValueError
AvailableResolutions(res, aud, cb, cat) ==
    LET res1 == ResolutionsAppended(res, cat)
        aud1 == AudioAppended(aud, cat)
    IN IF Contains(res1, NoneText)
       THEN LET res2 == RemoveFirst(res1, NoneText)
            IN [resolutions |-> res2, audio |-> aud1,
                combobox |-> [items |-> res2,
                              index |-> IF Len(res2) > 0 THEN 1 ELSE 0]]
       ELSE [resolutions |-> res1, audio |-> aud1, combobox |-> cb]

\* line_edit_changed(url)
line_edit_changed(url) ==
    /\ ~input.closed
    /\ Quiet
    /\ input.loads < MaxLoads
    /\ input' = [input EXCEPT !.loads = @ + 1]
    /\ IF url \notin ValidUrls
       THEN \* 'URL error, please try again.'
            UNCHANGED << yt, streams, title, resolutions, audio, combobox >>
       ELSE IF CatalogError(url) # "ok"
       THEN \* self.yt is assigned, self.yt.streams raises and is caught
            /\ yt' = url
            /\ UNCHANGED << streams, title, resolutions, audio, combobox >>
       ELSE LET ar == AvailableResolutions(resolutions, audio, combobox, Catalog(url))
            IN /\ yt' = url
               /\ streams' = url
               /\ title' = TitleOf(url)
               /\ resolutions' = ar.resolutions
               /\ audio' = ar.audio
               /\ combobox' = ar.combobox
    /\ UNCHANGED << output_filename, shared, disk, run, events >>

\* dragEnterEvent: hasUrls is a bound method, always true; the line edit is
\* cleared (line_edit_changed("") only shows 'URL error') and resolutions reset
dragEnterEvent ==
    /\ ~input.closed
    /\ Quiet
    /\ input.drags < MaxDrags
    /\ input' = [input EXCEPT !.drags = @ + 1]
    /\ resolutions' = << NoneText >>
    /\ UNCHANGED << yt, streams, title, audio, combobox, output_filename,
                    shared, disk, run, events >>

\* The user picks another entry of the resolution combobox
SelectResolution(i) ==
    /\ ~input.closed
    /\ Quiet
    /\ i \in 1..Len(combobox.items)
    /\ i # combobox.index
    /\ combobox' = [combobox EXCEPT !.index = i]
    /\ UNCHANGED << yt, streams, title, resolutions, audio, output_filename,
                    shared, disk, run, events, input >>

\* download_manager with a folder chosen, and download_worker: a Worker for
\* download_video is created and started on the thread pool. The button is
\* pressed while another worker runs only when overlap is allowed.
download_manager(overlap, limit) ==
    /\ ~input.closed
    /\ input.runs < limit
    /\ overlap \/ Quiet
    /\ LET r == input.runs + 1
       IN /\ input' = [input EXCEPT !.runs = r]
          /\ output_filename' = title
          /\ run' = [run EXCEPT ![r] =
                        [NoRun EXCEPT !.pc = "itags",
                                      !.earlier = {e \in RunIds : run[e].pc = "done"}]]
    /\ UNCHANGED << yt, streams, title, resolutions, audio, combobox,
                    shared, disk, events >>

\* The GUI thread runs the next queued slot, download_complete, which resets
\* the progress bar (the slots print_output and progress_fn only print and are
\* not queued here)
download_complete ==
    /\ ~input.closed
    /\ Len(events) > 0
    /\ Head(events) = "download_complete"
    /\ events' = Tail(events)
    /\ progress' = [text |-> "Download complete!", pct |-> 0]
    /\ UNCHANGED << gui, pct_completed, video_stream, audio_stream, ffmpeg_string,
                    disk, run, input >>

\* The window is closed with no worker running: app.exec() returns, the
\* interpreter exits and the TemporaryDirectory finalizer removes the folder
Quit ==
    /\ ~input.closed
    /\ Quiet
    /\ input' = [input EXCEPT !.closed = TRUE]
    /\ temp_folder' = FALSE
    /\ files' = [f \in FileNames |-> NoFile]
    /\ UNCHANGED << gui, shared, outputs, run, events >>

\* ---------------------------------------------------------------- worker thread

\* An exception leaves download_video: Worker.run catches it
Raised(r, exctype, at) ==
    [run[r] EXCEPT !.pc = "raised",
                   !.outcome = [kind |-> "error", exctype |-> exctype, at |-> at]]

\* download_video, 'Get itag from combobox text': both try blocks
GetItags(r) ==
    /\ run[r].pc = "itags"
    /\ run' = [run EXCEPT ![r].audio_itag =
                              IF Len(audio) >= 1 THEN ItagOfText(audio[1]) ELSE Unbound,
                          ![r].video_itag = ItagOfText(CurrentText(combobox)),
                          ![r].pc = "resolve"]
    /\ UNCHANGED << gui, shared, disk, events, input >>

\* download_video, 'Choose streams by itag'
ChooseStreams(r) ==
    /\ run[r].pc = "resolve"
    /\ IF yt = NoneObj
       THEN /\ run' = [run EXCEPT ![r] = Raised(r, "AttributeError", "resolve")]
            /\ UNCHANGED << video_stream, audio_stream >>
       ELSE IF CatalogError(yt) # "ok"
       THEN /\ run' = [run EXCEPT ![r] = Raised(r, CatalogError(yt), "resolve")]
            /\ UNCHANGED << video_stream, audio_stream >>
       ELSE IF run[r].video_itag = Unbound
       THEN /\ run' = [run EXCEPT ![r] = Raised(r, "UnboundLocalError", "resolve")]
            /\ UNCHANGED << video_stream, audio_stream >>
       ELSE /\ video_stream' = GetByItag(yt, run[r].video_itag)
            /\ IF streams = NoneObj
               THEN /\ run' = [run EXCEPT ![r] = Raised(r, "AttributeError", "resolve")]
                    /\ UNCHANGED audio_stream
               ELSE IF run[r].audio_itag = Unbound
               THEN /\ run' = [run EXCEPT ![r] =
                                  Raised(r, "UnboundLocalError", "resolve")]
                    /\ UNCHANGED audio_stream
               ELSE /\ audio_stream' = GetByItag(streams, run[r].audio_itag)
                    /\ run' = [run EXCEPT ![r].pc = "dl_video"]
    /\ UNCHANGED << gui, pct_completed, progress, ffmpeg_string, disk, events, input >>

\* 'if self.<kind>_stream: self.<kind>_stream.download(...)': the download is
\* skipped for None, else the scratch file is opened for writing
StartDownload(r, at, stream, file, chunks, next) ==
    /\ run[r].pc = at
    /\ IF stream = NoStream
       THEN /\ run' = [run EXCEPT ![r].pc = next]
            /\ UNCHANGED files
       ELSE /\ files' = [files EXCEPT ![file] =
                            [writer |-> r, bytes |-> 0, size |-> stream.filesize]]
            /\ run' = [run EXCEPT ![r].pc = chunks,
                                  ![r].dl = [size |-> stream.filesize,
                                             remaining |-> stream.filesize],
                                  ![r].wrote = @ \cup {file}]
    /\ UNCHANGED << gui, shared, temp_folder, outputs, events, input >>

DownloadVideo(r) ==
    StartDownload(r, "dl_video", video_stream, "video.mp4", "chunk_video", "dl_audio")

DownloadAudio(r) ==
    StartDownload(r, "dl_audio", audio_stream, "audio.mp3", "chunk_audio", "probe")

\* on_download_progress(stream, chunk, bytes_remaining): the percent it stores
on_download_progress(filesize, bytes_remaining) ==
    RoundPct(filesize - bytes_remaining, filesize)

\* One chunk of the running download is written at the download's own offset
\* and the progress callback runs
DownloadChunk(r) ==
    /\ run[r].pc \in {"chunk_video", "chunk_audio"}
    /\ LET file == IF run[r].pc = "chunk_video" THEN "video.mp4" ELSE "audio.mp3"
           next == IF run[r].pc = "chunk_video" THEN "dl_audio" ELSE "probe"
           n == IF run[r].dl.remaining < ChunkSize THEN run[r].dl.remaining
                ELSE ChunkSize
           left == run[r].dl.remaining - n
           pct == on_download_progress(run[r].dl.size, left)
           end == run[r].dl.size - left
       IN /\ files' = [files EXCEPT ![file].writer = r,
                                    ![file].bytes = IF @ > end THEN @ ELSE end]
          /\ pct_completed' = pct
          /\ progress' = [text |-> "Downloading", pct |-> pct]
          /\ run' = [run EXCEPT ![r].dl.remaining = left,
                                ![r].pc = IF left = 0 THEN next ELSE @]
    /\ UNCHANGED << gui, video_stream, audio_stream, ffmpeg_string, temp_folder,
                    outputs, events, input >>

\* The transfer fails: stream.download raises
DownloadFails(r) ==
    /\ run[r].pc \in {"chunk_video", "chunk_audio"}
    /\ run' = [run EXCEPT ![r] = Raised(r, "URLError", "download")]
    /\ UNCHANGED << gui, shared, disk, events, input >>

\* ---------------------------------------------------------------- ffprobe

ProbeEntry(has, text) == [hasField |-> has, nb_read_packets |-> text]
ProbeOutput(text, has, entries) ==
    [text |-> text, hasStreams |-> has, streams |-> entries]

\* What ffprobe prints for a video file it cannot open: an object with no
\* "streams" key
ProbeNoFile == ProbeOutput("json", FALSE, << >>)

\* What ffprobe can print for a video file that exists
ProbeOutputs ==
    { ProbeOutput("", FALSE, << >>),
      ProbeOutput("garbage", FALSE, << >>),
      ProbeNoFile,
      ProbeOutput("json", TRUE, << >>),
      ProbeOutput("json", TRUE, << ProbeEntry(FALSE, "") >>),
      ProbeOutput("json", TRUE, << ProbeEntry(TRUE, "N/A") >>),
      ProbeOutput("json", TRUE, << ProbeEntry(TRUE, "0") >>),
      ProbeOutput("json", TRUE, << ProbeEntry(TRUE, "2") >>),
      ProbeOutput("json", TRUE, << ProbeEntry(TRUE, "1000") >>) }

\* float(text): the number, or Unbound for a text float() rejects
ParseFloat(text) ==
    CASE text = "0" -> 0
      [] text = "2" -> 2
      [] text = "1000" -> 1000
      [] OTHER -> Unbound

\* json.loads(data) and float(dict['streams'][0]['nb_read_packets']): the
\* exception raised, or "ok" and the total
ParseProbe(out) ==
    IF out.text # "json" THEN [exc |-> "JSONDecodeError", total |-> Unbound]
    ELSE IF ~out.hasStreams THEN [exc |-> "KeyError", total |-> Unbound]
    ELSE IF Len(out.streams) = 0 THEN [exc |-> "IndexError", total |-> Unbound]
    ELSE IF ~out.streams[1].hasField THEN [exc |-> "KeyError", total |-> Unbound]
    ELSE IF ParseFloat(out.streams[1].nb_read_packets) = Unbound
    THEN [exc |-> "ValueError", total |-> Unbound]
    ELSE [exc |-> "ok", total |-> ParseFloat(out.streams[1].nb_read_packets)]

\* download_video from progress_callback.emit to tot_n_frames: the progress
\* signal is emitted and ffprobe is run on the scratch video file
CountFrames(r, outs) ==
    /\ run[r].pc = "probe"
    /\ \E out \in (IF files["video.mp4"].writer = 0 THEN {ProbeNoFile} ELSE outs) :
          LET parsed == ParseProbe(out)
              emitted == [run[r] EXCEPT
                             !.signals = Append(@, << "progress", pct_completed >>),
                             !.reads.probe = files["video.mp4"].writer]
          IN run' = [run EXCEPT ![r] =
                        IF parsed.exc # "ok"
                        THEN [emitted EXCEPT
                                 !.pc = "raised",
                                 !.outcome = [kind |-> "error", exctype |-> parsed.exc,
                                              at |-> "probe"]]
                        ELSE [emitted EXCEPT !.pc = "popen",
                                             !.tot_n_frames = parsed.total]]
    /\ UNCHANGED << gui, shared, disk, events, input >>

\* ---------------------------------------------------------------- ffmpeg

Frame(n) == [key |-> "frame", val |-> n]
OtherLine == [key |-> "fps", val |-> 0]

\* The progress feeds ffmpeg can write when it has both input files
Feeds == { << Frame(100), Frame(500), Frame(1000) >>,
           << OtherLine, Frame(3) >> }

\* download_video from ffmpeg_string to progress_reader_thread.start(): the
\* subprocess is started on the two scratch files and the reader thread on it
StartMerge(r, feeds) ==
    /\ run[r].pc = "popen"
    /\ ffmpeg_string' = "ffmpeg"
    /\ \E feed \in (IF files["video.mp4"].writer = 0 \/ files["audio.mp3"].writer = 0
                    THEN { << >> } ELSE feeds) :
          run' = [run EXCEPT ![r].string1 = output_filename,
                             ![r].proc = [NoProc EXCEPT !.state = "running",
                                                        !.feed = feed],
                             ![r].reads.video = files["video.mp4"].writer,
                             ![r].reads.audio = files["audio.mp3"].writer,
                             ![r].q = 0,
                             ![r].rpc = "poll",
                             ![r].pc = "poll"]
    /\ UNCHANGED << gui, pct_completed, progress, video_stream, audio_stream,
                    disk, events, input >>

\* ffmpeg writes the next line of its progress feed to its stdout pipe
ProcWrite(r) ==
    /\ run[r].proc.state = "running"
    /\ Len(run[r].proc.feed) > 0
    /\ run' = [run EXCEPT ![r].proc.pipe = Append(@, Head(run[r].proc.feed)),
                          ![r].proc.sent = Append(@, Head(run[r].proc.feed)),
                          ![r].proc.feed = Tail(@)]
    /\ UNCHANGED << gui, shared, disk, events, input >>

\* ffmpeg exits: with 0 after its whole feed, when it had both inputs; with a
\* non-zero code at any point
ProcExit(r, code) ==
    /\ run[r].proc.state = "running"
    /\ code = 0 => /\ Len(run[r].proc.feed) = 0
                   /\ run[r].reads.video # 0
                   /\ run[r].reads.audio # 0
    /\ run' = [run EXCEPT ![r].proc.state = "exited", ![r].proc.code = code,
                          ![r].proc.feed = << >>]
    /\ outputs' = [outputs EXCEPT ![run[r].string1] =
                      IF code = 0 THEN "valid"
                      ELSE IF run[r].reads.video # 0 /\ run[r].reads.audio # 0
                      THEN "partial" ELSE @]
    /\ UNCHANGED << gui, shared, temp_folder, files, events, input >>

\* Mutant of PollProcess: the exit of the subprocess is never observed
PollProcess_NeverBreaks(r) ==
    /\ run[r].pc = "poll"
    /\ run' = [run EXCEPT ![r].pc = "sleep"]
    /\ UNCHANGED << gui, shared, disk, events, input >>

\* 'if process.poll() is not None: break'
PollProcess(r) ==
    /\ run[r].pc = "poll"
    /\ run' = [run EXCEPT ![r].pc =
                  IF run[r].proc.state = "exited" THEN "close" ELSE "sleep"]
    /\ UNCHANGED << gui, shared, disk, events, input >>

\* (n_frame / tot_n_frames) * 100 as the text "%0.2f" shows it
MergePercent(n_frame, tot_n_frames) == FormatPct(n_frame, tot_n_frames)

\* time.sleep(1), then the percent is computed from q[0] and published
PublishMergePercent(r) ==
    /\ run[r].pc = "sleep"
    /\ IF run[r].tot_n_frames = 0
       THEN /\ run' = [run EXCEPT ![r] = Raised(r, "ZeroDivisionError", "merge")]
            /\ UNCHANGED progress
       ELSE LET pct == MergePercent(run[r].q, run[r].tot_n_frames)
            IN /\ run' = [run EXCEPT ![r].progress_percent = pct, ![r].pc = "poll"]
               /\ progress' = [text |-> "Merging", pct |-> pct]
    /\ UNCHANGED << gui, pct_completed, video_stream, audio_stream, ffmpeg_string,
                    disk, events, input >>

\* process.stdout.close()
ClosePipe(r) ==
    /\ run[r].pc = "close"
    /\ run' = [run EXCEPT ![r].proc.closed = TRUE, ![r].pc = "join"]
    /\ UNCHANGED << gui, shared, disk, events, input >>

\* progress_reader_thread.join(): returns once the reader thread has ended
JoinReader(r) ==
    /\ run[r].pc = "join"
    /\ run[r].rpc \in {"done", "crashed"}
    /\ run' = [run EXCEPT ![r].pc = "wait"]
    /\ UNCHANGED << gui, shared, disk, events, input >>

\* process.wait(), 'Finished download.', self.yt = None, return
FinishDownload(r) ==
    /\ run[r].pc = "wait"
    /\ run[r].proc.state = "exited"
    /\ yt' = NoneObj
    /\ run' = [run EXCEPT ![r].pc = "returned",
                          ![r].outcome = [kind |-> "result",
                                          exctype |-> "none", at |-> "none"]]
    /\ UNCHANGED << streams, title, resolutions, audio, combobox, output_filename,
                    shared, disk, events, input >>

\* ---------------------------------------------------------------- reader thread

\* progress_reader: 'if procs.poll() is not None: break'
ReaderPoll(r) ==
    /\ run[r].rpc = "poll"
    /\ run' = [run EXCEPT ![r].rpc =
                  IF run[r].proc.state = "exited" THEN "done" ELSE "readline"]
    /\ UNCHANGED << gui, shared, disk, events, input >>

\* progress_reader: readline and the rest of the loop body. readline raises
\* ValueError on a closed pipe, returns the next line, or b'' at end of file
\* (which is not None: the loop goes on), and blocks otherwise
ReaderReadline(r) ==
    /\ run[r].rpc = "readline"
    /\ IF run[r].proc.closed
       THEN run' = [run EXCEPT ![r].rpc = "crashed"]
       ELSE IF Len(run[r].proc.pipe) > 0
       THEN LET line == Head(run[r].proc.pipe)
            IN run' = [run EXCEPT ![r].proc.pipe = Tail(@),
                                  ![r].q = IF line.key = "frame" THEN line.val ELSE @,
                                  ![r].rpc = "poll"]
       ELSE /\ run[r].proc.state = "exited"
            /\ run' = [run EXCEPT ![r].rpc = "poll"]
    /\ UNCHANGED << gui, shared, disk, events, input >>

\* ---------------------------------------------------------------- Worker.run

\* Mutant of WorkerEmit: Worker.run without its except clause
WorkerEmit_NoExcept(r) ==
    /\ run[r].pc \in {"returned", "raised"}
    /\ run' = [run EXCEPT ![r].signals =
                              IF run[r].pc = "returned"
                              THEN Append(@, << "result", 0 >>) ELSE @,
                          ![r].pc = "finally"]
    /\ UNCHANGED << gui, shared, disk, events, input >>

\* Worker.run, except/else: the error or the result signal is emitted (error is
\* connected to no slot, result to print_output, which only prints)
WorkerEmit(r) ==
    /\ run[r].pc \in {"returned", "raised"}
    /\ run' = [run EXCEPT ![r].signals =
                              Append(@, << IF run[r].pc = "returned" THEN "result"
                                           ELSE "error", 0 >>),
                          ![r].pc = "finally"]
    /\ UNCHANGED << gui, shared, disk, events, input >>

\* The locals of download_video are gone once Worker.run ends; q and the pipe
\* stay while the reader thread, which holds them, is alive
Discarded(w) ==
    [w EXCEPT !.audio_itag = Unbound, !.video_itag = Unbound,
              !.dl = [size |-> 0, remaining |-> 0],
              !.tot_n_frames = Unbound, !.progress_percent = Unbound,
              !.q = IF w.rpc \in {"poll", "readline"} THEN @ ELSE 0,
              !.proc.pipe = IF w.rpc \in {"poll", "readline"} THEN @ ELSE << >>]

\* Worker.run, finally: finished is emitted
WorkerFinished(r) ==
    /\ run[r].pc = "finally"
    /\ run' = [run EXCEPT ![r] = [Discarded(run[r]) EXCEPT
                                     !.signals = Append(@, << "finished", 0 >>),
                                     !.pc = "done"]]
    /\ events' = Append(events, "download_complete")
    /\ UNCHANGED << gui, shared, disk, input >>

\* ---------------------------------------------------------------- specification

\* The steps of worker r, its subprocess and its reader thread, for the probe
\* outputs and progress feeds the environment may produce
WorkerStep(r, outs, feeds, codes) ==
    \/ GetItags(r)
    \/ ChooseStreams(r)
    \/ DownloadVideo(r)
    \/ DownloadAudio(r)
    \/ DownloadChunk(r)
    \/ DownloadFails(r)
    \/ CountFrames(r, outs)
    \/ StartMerge(r, feeds)
    \/ ProcWrite(r)
    \/ \E code \in codes : ProcExit(r, code)
    \/ PollProcess(r)
    \/ PublishMergePercent(r)
    \/ ClosePipe(r)
    \/ JoinReader(r)
    \/ FinishDownload(r)
    \/ ReaderPoll(r)
    \/ ReaderReadline(r)
    \/ WorkerEmit(r)
    \/ WorkerFinished(r)

GuiStep ==
    \/ \E url \in Texts : line_edit_changed(url)
    \/ dragEnterEvent
    \/ \E i \in 1..2 : SelectResolution(i)
    \/ download_complete
    \/ Quit

\* One run in full: every probe output, every feed
Next ==
    \/ GuiStep
    \/ download_manager(FALSE, MaxDetailedRuns)
    \/ \E r \in RunIds : WorkerStep(r, ProbeOutputs, Feeds, {0, 1})

Spec == Init /\ [][Next]_vars

\* Several runs, one after the other, with one well-formed and one malformed
\* probe output and a one-line feed
RunsProbeOutputs ==
    { ProbeOutput("json", TRUE, << ProbeEntry(TRUE, "2") >>),
      ProbeOutput("", FALSE, << >>) }
RunsFeeds == { << Frame(3) >> }

NextRuns ==
    \/ GuiStep
    \/ download_manager(FALSE, MaxRuns)
    \/ \E r \in RunIds : WorkerStep(r, RunsProbeOutputs, RunsFeeds, {0, 1})

SpecRuns == Init /\ [][NextRuns]_vars

\* Overlapping runs of one video: the download button is pressed again while
\* a worker runs; the probe output is well-formed and ffmpeg exits with 0
OverlapProbeOutputs == { ProbeOutput("json", TRUE, << ProbeEntry(TRUE, "2") >>) }

NextOverlap ==
    \/ line_edit_changed("A")
    \/ download_complete
    \/ download_manager(TRUE, MaxRuns)
    \/ \E r \in RunIds : WorkerStep(r, OverlapProbeOutputs, RunsFeeds, {0})

SpecOverlap == Init /\ [][NextOverlap]_vars

\* ---------------------------------------------------------------- properties

\* The pipeline phase a worker is in, from its position in download_video
Phase(r) ==
    CASE run[r].pc = "unused" -> "NotStarted"
      [] run[r].pc \in {"itags", "resolve"} -> "Idle"
      [] run[r].pc \in {"dl_video", "chunk_video", "dl_audio", "chunk_audio"}
            -> "Downloading"
      [] run[r].pc = "probe" -> "Probing"
      [] run[r].pc \in {"popen", "poll", "sleep", "close", "join", "wait"} -> "Merging"
      [] OTHER -> IF run[r].outcome.kind = "result" THEN "Complete" ELSE "Failed"

Ended(r) == run[r].pc \in {"returned", "raised", "finally", "done"}

\* C1: every run that has ended has exactly one outcome, a result or an error,
\* and a result only with a valid output file at the path ffmpeg was given.
C1_SuccessHasOutput ==
    \A r \in RunIds :
        Ended(r) =>
            /\ run[r].outcome.kind \in {"result", "error"}
            /\ run[r].outcome.kind = "result" => outputs[run[r].string1] = "valid"

PhaseEdges ==
    { << "NotStarted", "Idle" >>, << "Idle", "Downloading" >>,
      << "Downloading", "Probing" >>, << "Probing", "Merging" >>,
      << "Merging", "Complete" >> }
      \cup { << p, "Failed" >> : p \in {"Idle", "Downloading", "Probing", "Merging"} }

\* C2: a run changes phase only along Idle -> Downloading -> Probing -> Merging
\* -> Complete or from a non-terminal phase to Failed, and a run whose merge
\* subprocess has failed (non-zero exit) does not move on to Complete.
C2_PhaseOrder ==
    [][\A r \in RunIds :
          Phase(r)' # Phase(r) =>
              /\ << Phase(r), Phase(r)' >> \in PhaseEdges
              /\ (run[r].proc.state = "exited" /\ run[r].proc.code # 0)
                     => Phase(r)' # "Complete"]_vars

\* C3: every published percent is within 0..100 (0..10000 hundredths): the
\* stored download percent, the percent shown by the progress bar and the
\* merge percent of every run.
C3_PercentInRange ==
    /\ pct_completed \in 0..10000
    /\ progress.pct \in 0..10000
    /\ \A r \in RunIds :
          run[r].progress_percent # Unbound => run[r].progress_percent \in 0..10000

\* C4: while the progress bar stays in one phase (Downloading, Merging) the
\* percent it shows never decreases.
C4_PercentMonotonic ==
    [][(progress'.text = progress.text /\ progress.text \in {"Downloading", "Merging"})
          => progress'.pct >= progress.pct]_vars

C5Feed == << Frame(100), Frame(500), Frame(1000) >>

\* C5: with total_frames = 1000 and the feed frame=100, 500, 1000 sent before
\* ffmpeg exits, the last merge percent a run has published when its polling
\* loop has ended is exactly 100.
C5_FinalPercent ==
    \A r \in RunIds :
        ( /\ run[r].pc \in {"close", "join", "wait", "returned"}
          /\ run[r].tot_n_frames = 1000
          /\ run[r].proc.sent = C5Feed
          /\ run[r].progress_percent # Unbound )
            => run[r].progress_percent = 10000

\* C6: once a run has returned the scratch workspace no longer exists.
C6_WorkspaceRemoved ==
    \A r \in RunIds : Ended(r) => ~temp_folder

\* The runs whose scratch files run r has read in its probe and merge steps
ReadFrom(r) == {run[r].reads.probe, run[r].reads.video, run[r].reads.audio} \ {0}

\* C7: the probe and merge steps of a run never read a scratch file written by
\* a run that had ended before this run started.
C7_FreshWorkspace ==
    \A r \in RunIds : ReadFrom(r) \cap run[r].earlier = {}

\* C8: a run never reads a scratch file written by a run overlapping it, and
\* the download percent it reports after downloading is the percent of its own
\* finished download (100), not a value another run has stored.
C8_Isolation ==
    \A r \in RunIds :
        /\ ReadFrom(r) \subseteq ({r} \cup run[r].earlier)
        /\ \A i \in 1..Len(run[r].signals) :
              (run[r].signals[i][1] = "progress" /\ run[r].wrote # {})
                  => run[r].signals[i][2] = 10000

\* C9: the merge polling loop is only entered with a positive total: a total
\* of zero, or none, never reaches the division.
C9_PositiveTotal ==
    \A r \in RunIds :
        run[r].pc \in {"popen", "poll", "sleep"} => run[r].tot_n_frames > 0

\* C10: a run whose ffmpeg subprocess exited with a non-zero code ends with an
\* error raised in the merge step, never with a result.
C10_MergeFailureReported ==
    \A r \in RunIds :
        (Ended(r) /\ run[r].proc.state = "exited" /\ run[r].proc.code # 0)
            => (run[r].outcome.kind = "error" /\ run[r].outcome.at = "merge")


\* C11: a run for which no audio stream is available (no audio itag could be
\* taken from the audio list) while a video itag is selected is not aborted
\* when the streams are chosen: it proceeds.
C11_NoAudioProceeds ==
    \A r \in RunIds :
        ~( /\ run[r].pc = "raised"
           /\ run[r].outcome.at = "resolve"
           /\ run[r].video_itag # Unbound
           /\ run[r].audio_itag = Unbound
           /\ yt # NoneObj
           /\ CatalogError(yt) = "ok" )

\* C12: the merge subprocess of a run exists only when the run itself has
\* written both scratch files completely, and a merge percent has been computed
\* only with a positive total.
C12_InputsBeforeMerge ==
    \A r \in RunIds :
        /\ (run[r].proc.state # "none" /\ run[r].pc # "done") =>
               /\ run[r].wrote = FileNames
               /\ run[r].reads.video # 0
               /\ run[r].reads.audio # 0
        /\ run[r].progress_percent # Unbound => run[r].tot_n_frames > 0

\* C13: a worker that is at a download whose selected stream is None does not
\* skip it: its next step raises.
C13_UnavailableFails ==
    [][\A r \in RunIds :
          ( /\ \/ run[r].pc = "dl_video" /\ video_stream = NoStream
               \/ run[r].pc = "dl_audio" /\ audio_stream = NoStream
            /\ run[r]'.pc # run[r].pc )
              => run[r]'.pc = "raised"]_vars


\* ---------------------------------------------------------------- fairness

\* The steps of the polling loop and of the end of download_video
MergeLoopStep(r) ==
    \/ PollProcess(r)
    \/ PublishMergePercent(r)
    \/ ClosePipe(r)
    \/ JoinReader(r)
    \/ FinishDownload(r)

\* The steps of the reader thread
ReaderStep(r) == ReaderPoll(r) \/ ReaderReadline(r)

\* Spec with the interpreter's thread scheduling: a thread that can take a step
\* is eventually run. Nothing is assumed of the subprocess.
SpecFair ==
    /\ Spec
    /\ \A r \in RunIds : WF_vars(MergeLoopStep(r)) /\ WF_vars(ReaderStep(r))

MergePcs == {"popen", "poll", "sleep", "close", "join", "wait"}

ItagUnresolved(r) ==
    /\ run[r].pc \notin {"unused", "itags", "done"}
    /\ \/ run[r].video_itag = Unbound
       \/ run[r].audio_itag = Unbound
       \/ (yt # NoneObj /\ CatalogError(yt) # "ok")

\* Worker r chose its streams and get_by_itag found no stream for one itag
StreamNotFound(r) ==
    /\ run[r].pc \notin {"unused", "itags", "resolve", "done"}
    /\ run[r].outcome.at # "resolve"
    /\ (video_stream = NoStream \/ audio_stream = NoStream)

\* C15: a run whose catalog raises or in which the video or the audio itag
\* did not resolve to a stream is aborted when the streams are chosen: it
\* never reaches a download and has written no scratch file.
C15_AbortBeforeDownload ==
    \A r \in RunIds :
        /\ ItagUnresolved(r) =>
               /\ run[r].pc \in {"resolve", "raised", "finally"}
               /\ run[r].pc # "resolve" => run[r].outcome.at = "resolve"
               /\ run[r].wrote = {}
        /\ StreamNotFound(r) => run[r].wrote = {}

\* The result, error and finished signals worker r has emitted, in order
Terminal(r) ==
    LET T == SelectSeq(run[r].signals,
                       LAMBDA s : s[1] \in {"result", "error", "finished"})
    IN  [i \in 1..Len(T) |-> T[i][1]]

\* C16: every execution of Worker.run emits exactly one of result and error,
\* once, the one that matches how the function ended, and emits finished once
\* and after it; nothing of the three is emitted while the function runs.
C16_SignalsOnce ==
    \A r \in RunIds :
        /\ run[r].pc = "done" => Terminal(r) = << run[r].outcome.kind, "finished" >>
        /\ run[r].pc = "finally" => Terminal(r) = << run[r].outcome.kind >>
        /\ run[r].pc \notin {"finally", "done"} => Terminal(r) = << >>
        /\ Ended(r) => run[r].outcome.kind \in {"result", "error"}

\* C16 witness: Worker.run is over for a function that raised
C16_Witness ==
    \E r \in RunIds :
        /\ run[r].pc = "done"
        /\ run[r].outcome.kind = "error"
        /\ Terminal(r) = << "error", "finished" >>

\* C17: once download_video has closed process.stdout, the reader thread issues
\* no readline on that pipe: it is not about to call readline and no readline
\* of it has failed on the closed pipe.
C17_NoReadAfterClose ==
    \A r \in RunIds :
        run[r].proc.closed => run[r].rpc \notin {"readline", "crashed"}

\* C18: whenever a run started by the download button begins download_video
\* after a URL has been loaded, a stream catalog is loaded (yt is not None).
C18_CatalogLoadedAtStart ==
    \A r \in RunIds :
        (run[r].pc = "itags" /\ streams # NoneObj) => yt # NoneObj

\* C19: once a URL has been loaded, the audio entry a run selects, audio[0],
\* and every resolution entry the combobox offers are entries that
\* available_resolutions produces from the catalog of the URL loaded last.
C19_EntriesFromLastLoad ==
    streams # NoneObj =>
        LET fresh_audio == AudioAppended(<< >>, Catalog(streams))
            fresh_res == ResolutionsAppended(<< >>, Catalog(streams))
        IN  /\ Len(audio) > 0 => /\ Len(fresh_audio) > 0
                                 /\ audio[1] = fresh_audio[1]
            /\ \A i \in 1..Len(combobox.items) : Contains(fresh_res, combobox.items[i])

====
